---------------------------- MODULE Spec2Model ----------------------------
(***************************************************************************)
(* A model of scripts/fetch_feeds.py: the feed aggregator (fetch_articles), *)
(* the summary normaliser (strip_html, strip, truncation), the image        *)
(* resolver (extract_image), the indexers (collect_all_labels,              *)
(* collect_all_sources), the page renderer (generate_html) and the filter   *)
(* script the rendered page embeds.                                         *)
(*                                                                          *)
(* A Python string is a sequence of one-character strings.  An optional     *)
(* value (an attribute that may be missing, a value that may be None) is    *)
(* None == << >> or Some(v) == << v >>.                                     *)
(***************************************************************************)
EXTENDS Integers, Sequences, FiniteSets, TLC

VARIABLES
    \* fetch_articles
    feeds,        \* the ordered feed list (argument)
    cutoff,       \* the cutoff timestamp (argument)
    tz,           \* the local UTC offset time.mktime applies
    idx,          \* position of the `for feed_info in feeds` loop
    pc,           \* "idle" | "parse" | "entries" | "done"
    left,         \* entries of d.entries not yet visited
    entry,        \* the loop variable `entry` (the entry visited last)
    articles,     \* the list `articles`
    parsed,       \* per feed: "pending" | "raised" | "ok"  (what feedparser.parse did)
    offered,      \* links of the entries that parsed feeds returned and that qualify
    \* the summary of one entry
    summary_raw,  \* getattr(entry, "summary", "") or ""
    summary_text, \* None until computed, then Some(the article's summary)
    \* extract_image
    img_entry,    \* the entry extract_image is called on
    image,        \* << >> until it returns, then << its result >>
    \* generate_html
    collection,   \* the Article collection rendered
    html,         \* << >> until rendered, then the document's pieces
    \* the filter script of the rendered page
    page,         \* the Article collection the page was rendered from
    activeSource, \* let activeSource
    activeLabel,  \* let activeLabel
    sourceActive, \* per .source-btn: does it carry class "active"
    labelActive,  \* per .label-btn: does it carry class "active"
    hidden        \* per .entry: does it carry class "hidden"

fetchVars == <<feeds, cutoff, tz, idx, pc, left, entry, articles, parsed, offered>>
summaryVars == <<summary_raw, summary_text>>
imageVars == <<img_entry, image>>
renderVars == <<collection, html>>
filterVars == <<page, activeSource, activeLabel, sourceActive, labelActive, hidden>>

vars == <<fetchVars, summaryVars, imageVars, renderVars, filterVars>>

-----------------------------------------------------------------------------
(* Bounds of the model *)

\* feeds in the feed list
MaxFeeds == 3
\* articles one run collects (and entries one feed returns)
MaxArticles == 2
\* timestamps of entries range over 0..MaxTime
MaxTime == 2
\* whitespace characters before and after a raw summary
MaxPad == 1
\* raw summaries are up to MaxOver characters shorter or longer than the limit
MaxOver == 2
\* enclosures of an entry
MaxEnclosures == 2
\* media_thumbnail and media_content items of an entry
MaxMedia == 1
\* articles of a rendered collection
MaxRendered == 2
\* articles of the page the filter script runs on
MaxPageArticles == 2

-----------------------------------------------------------------------------
(* Optional values and strings *)

None == << >>
Some(v) == << v >>
IsSome(o) == o # None
Get(o) == o[1]

Range(s) == { s[i] : i \in 1..Len(s) }

\* the code point order Python compares characters by (of the characters used)
Code(c) ==
    CASE c = " "  -> 32
      [] c = "\"" -> 34
      [] c = "&"  -> 38
      [] c = "'"  -> 39
      [] c = "."  -> 46
      [] c = "/"  -> 47
      [] c = ";"  -> 59
      [] c = "<"  -> 60
      [] c = "="  -> 61
      [] c = ">"  -> 62
      [] c = "a"  -> 97
      [] c = "b"  -> 98
      [] c = "c"  -> 99
      [] c = "e"  -> 101
      [] c = "g"  -> 103
      [] c = "h"  -> 104
      [] c = "i"  -> 105
      [] c = "l"  -> 108
      [] c = "m"  -> 109
      [] c = "n"  -> 110
      [] c = "o"  -> 111
      [] c = "p"  -> 112
      [] c = "q"  -> 113
      [] c = "r"  -> 114
      [] c = "s"  -> 115
      [] c = "t"  -> 116
      [] c = "u"  -> 117
      [] c = "w"  -> 119
      [] c = "x"  -> 120
      [] OTHER    -> 127

\* s < t in Python's string order
StrLess(s, t) ==
    \E k \in 0..Len(s) :
        /\ k <= Len(t)
        /\ \A i \in 1..k : s[i] = t[i]
        /\ \/ k = Len(s) /\ k < Len(t)
           \/ k < Len(s) /\ k < Len(t) /\ Code(s[k+1]) < Code(t[k+1])


StartsWith(s, p) == Len(s) >= Len(p) /\ SubSeq(s, 1, Len(p)) = p

-----------------------------------------------------------------------------
(* strip_html, str.strip and the truncation of fetch_articles *)

\* the position of the ">" closing a tag that opens at s[i] = "<", 0 if the
\* pattern <[^>]+> does not match at i
TagEnd(s, i) ==
    LET closers == { j \in (i+2)..Len(s) : s[j] = ">" }
    IN  IF i + 1 <= Len(s) /\ s[i+1] # ">" /\ closers # {}
        THEN CHOOSE j \in closers : \A k \in closers : j <= k
        ELSE 0

\* the text from s[i] on with every tag removed: up to the next tag, then on
\* from behind it
RECURSIVE StripFrom(_, _)
StripFrom(s, i) ==
    LET opens == { p \in i..Len(s) : s[p] = "<" /\ TagEnd(s, p) # 0 }
    IN  IF opens = {} THEN SubSeq(s, i, Len(s))
        ELSE LET p == CHOOSE a \in opens : \A b \in opens : a <= b
             IN  SubSeq(s, i, p - 1) \o StripFrom(s, TagEnd(s, p) + 1)

\* re.sub(r"<[^>]+>", "", text)
StripHtml(text) == StripFrom(text, 1)

IsSpace(c) == c \in {" ", "\n", "\t"}

\* str.strip()
Strip(s) ==
    LET solid == { i \in 1..Len(s) : ~IsSpace(s[i]) }
    IN  IF solid = {} THEN << >>
        ELSE LET lo == CHOOSE i \in solid : \A k \in solid : i <= k
                 hi == CHOOSE i \in solid : \A k \in solid : i >= k
             IN  SubSeq(s, lo, hi)

\* the length above which a summary is cut
SummaryLimit == 200

Ellipsis == << ".", ".", "." >>

TruncateOffByOne(s) ==
    IF Len(s) >= SummaryLimit THEN SubSeq(s, 1, SummaryLimit - 1) \o Ellipsis ELSE s

\* if len(summary_text) > 200: summary_text = summary_text[:200] + "..."
Truncate(s) ==
    IF Len(s) > SummaryLimit THEN SubSeq(s, 1, SummaryLimit) \o Ellipsis ELSE s

\* summary_raw -> summary_text
Summarize(raw) == Truncate(Strip(StripHtml(raw)))

-----------------------------------------------------------------------------
(* extract_image *)

ImagePrefix == << "i", "m", "a", "g", "e", "/" >>
ImageMedium == << "i", "m", "a", "g", "e" >>
ImgOpen == << "<", "i", "m", "g" >>
SrcEq == << "s", "r", "c", "=" >>
Quotes == { "\"", "'" }

\* dict.get(key, "") of an optional string
OrEmpty(o) == IF IsSome(o) THEN Get(o) ELSE << >>

\* re.search(r'<img[^>]+src=["\']([^"\']+)', text): the captured group, or None
ImgSrc(text) ==
    LET n == Len(text)
        \* where "src=" may start for a match that starts at i: [^>]+ covers i+4..j-1
        SrcAt(i) == { j \in (i+5)..(n-5) :
                        /\ \A k \in (i+4)..(j-1) : text[k] # ">"
                        /\ SubSeq(text, j, j+3) = SrcEq
                        /\ text[j+4] \in Quotes
                        /\ text[j+5] \notin Quotes }
        starts == { i \in 1..(n-3) : SubSeq(text, i, i+3) = ImgOpen /\ SrcAt(i) # {} }
    IN  IF starts = {} THEN None
        ELSE LET i == CHOOSE a \in starts : \A b \in starts : a <= b
                 \* [^>]+ is greedy: the last "src=" of the tag is the one taken
                 j == CHOOSE a \in SrcAt(i) : \A b \in SrcAt(i) : a >= b
                 stops == { k \in (j+5)..n : text[k] \in Quotes }
                 last == IF stops = {} THEN n
                         ELSE (CHOOSE a \in stops : \A b \in stops : a <= b) - 1
             IN  Some(SubSeq(text, j+5, last))

\* 1. the first enclosure whose type starts with image/: its href (None if it has none)
FromEnclosures(e) ==
    LET hits == { i \in 1..Len(e.enclosures) :
                    StartsWith(OrEmpty(e.enclosures[i].type), ImagePrefix) }
    IN  IF hits = {} THEN << >>
        ELSE << e.enclosures[CHOOSE i \in hits : \A k \in hits : i <= k].href >>

\* 2. the first media_thumbnail with a non-empty url
FromThumbnails(e) ==
    LET hits == { i \in 1..Len(e.media_thumbnail) :
                    OrEmpty(e.media_thumbnail[i].url) # << >> }
    IN  IF hits = {} THEN << >>
        ELSE << e.media_thumbnail[CHOOSE i \in hits : \A k \in hits : i <= k].url >>

\* 3. the first media_content that is an image: its url (None if it has none)
FromMediaContent(e) ==
    LET hits == { i \in 1..Len(e.media_content) :
                    \/ e.media_content[i].medium = Some(ImageMedium)
                    \/ StartsWith(OrEmpty(e.media_content[i].type), ImagePrefix) }
    IN  IF hits = {} THEN << >>
        ELSE << e.media_content[CHOOSE i \in hits : \A k \in hits : i <= k].url >>

\* 4. the first <img> of the summary, else of the first content block
FromInline(e) ==
    LET text == IF Len(e.content) > 0 THEN e.content[1] ELSE << >>
    IN  IF IsSome(ImgSrc(e.summary)) THEN << ImgSrc(e.summary) >>
        ELSE IF IsSome(ImgSrc(text)) THEN << ImgSrc(text) >>
        ELSE << >>

\* Each From... is << >> when its loop returns nothing, << r >> when it
\* returns r (r itself None or Some(url)).
ExtractImage(e) ==
    IF FromEnclosures(e) # << >> THEN FromEnclosures(e)[1]
    ELSE IF FromThumbnails(e) # << >> THEN FromThumbnails(e)[1]
    ELSE IF FromMediaContent(e) # << >> THEN FromMediaContent(e)[1]
    ELSE IF FromInline(e) # << >> THEN FromInline(e)[1]
    ELSE None

-----------------------------------------------------------------------------
(* fetch_articles *)

Times == 0..MaxTime

\* the local UTC offsets time.mktime may run under
TZOffsets == {0, 1}

NoTitle == << "(", "n", "o", " ", "t", "i", "t", "l", "e", ")" >>
Hash == << "#" >>

\* the feed list is a prefix of this catalogue of feed configurations
FeedInfo(i) ==
    CASE i % 3 = 1 -> [url |-> i, name |-> << "b" >>,
                       labels |-> << << "n", "e", "w", "s" >>, << "a", "i" >> >>]
      [] i % 3 = 2 -> [url |-> i, name |-> << "a" >>,
                       labels |-> << << "a", "i" >>, << "n", "e", "w" >> >>]
      [] OTHER     -> [url |-> i, name |-> << "b" >>, labels |-> << >>]

\* an entry that carries no media and a one-tag summary
PlainEntry(link, pp, up) ==
    [title |-> None, link |-> Some(link),
     published_parsed |-> pp, updated_parsed |-> up,
     summary |-> << "<", "p", ">", " ", "h", "i", "<", "/", "p", ">" >>,
     content |-> << >>, enclosures |-> << >>,
     media_thumbnail |-> << >>, media_content |-> << >>]

NoEntry == PlainEntry(<< 0, 0 >>, None, None)

\* datetime.fromtimestamp(mktime(t), tz=timezone.utc): t is read as local time
FromStructTime(t, offset) == t - offset

\* for date_field in ("published_parsed", "updated_parsed"): first present wins
ResolvePublished(e, offset) ==
    IF IsSome(e.published_parsed) THEN Some(FromStructTime(Get(e.published_parsed), offset))
    ELSE IF IsSome(e.updated_parsed)
         THEN Some(FromStructTime(Get(e.updated_parsed), offset))
    ELSE None

KeptAlways(published, c) == IsSome(published)

\* not (published is None or published < cutoff)
Kept(published, c) == IsSome(published) /\ ~(Get(published) < c)

\* the dict appended to articles
MakeArticle(e, feed_info, published) ==
    [title     |-> IF IsSome(e.title) THEN Get(e.title) ELSE NoTitle,
     link      |-> IF IsSome(e.link) THEN Get(e.link) ELSE Hash,
     source    |-> feed_info.name,
     labels    |-> feed_info.labels,
     published |-> published,
     summary   |-> Summarize(e.summary),
     image     |-> ExtractImage(e)]

\* insert a into the list s, sorted by published descending, after its equals
RECURSIVE InsertDesc(_, _)
InsertDesc(s, a) ==
    IF s = << >> THEN << a >>
    ELSE IF Head(s).published >= a.published THEN << Head(s) >> \o InsertDesc(Tail(s), a)
    ELSE << a >> \o s

RECURSIVE InsertAsc(_, _)
InsertAsc(s, a) ==
    IF s = << >> THEN << a >>
    ELSE IF Head(s).published <= a.published THEN << Head(s) >> \o InsertAsc(Tail(s), a)
    ELSE << a >> \o s

Reverse(s) == [i \in 1..Len(s) |-> s[Len(s) + 1 - i]]

RECURSIVE SortAsc(_)
SortAsc(s) ==
    IF s = << >> THEN << >>
    ELSE InsertAsc(SortAsc(SubSeq(s, 1, Len(s) - 1)), s[Len(s)])

\* sort ascending, then reverse: equal timestamps come out in reverse order
SortThenReverse(s) == Reverse(SortAsc(s))

\* articles.sort(key=lambda a: a["published"], reverse=True): list.sort is
\* stable, also with reverse=True
RECURSIVE SortDesc(_)
SortDesc(s) ==
    IF s = << >> THEN << >>
    ELSE InsertDesc(SortDesc(SubSeq(s, 1, Len(s) - 1)), s[Len(s)])

AbortOnError(i) == Len(feeds) + 1

\* except Exception: print(...); continue  -- on to the next feed
OnParseError(i) == i + 1

IdleFetch ==
    /\ feeds = << >> /\ cutoff = 0 /\ tz = 0 /\ idx = 1 /\ pc = "idle"
    /\ left = 0 /\ entry = NoEntry /\ articles = << >>
    /\ parsed = << >> /\ offered = {}

InitFetch ==
    /\ \E n \in 0..MaxFeeds : feeds = [i \in 1..n |-> FeedInfo(i)]
    /\ cutoff \in (MaxTime - 1)..MaxTime
    /\ tz \in TZOffsets
    /\ idx = 1
    /\ pc = "parse"
    /\ left = 0
    /\ entry = NoEntry
    /\ articles = << >>
    /\ parsed = [i \in 1..Len(feeds) |-> "pending"]
    /\ offered = {}

\* d = feedparser.parse(url) raises
ParseRaises ==
    /\ pc = "parse"
    /\ idx <= Len(feeds)
    /\ parsed' = [parsed EXCEPT ![idx] = "raised"]
    /\ idx' = OnParseError(idx)
    /\ UNCHANGED <<feeds, cutoff, tz, pc, left, entry, articles, offered>>
    /\ UNCHANGED <<summaryVars, imageVars, renderVars, filterVars>>

\* d = feedparser.parse(url) returns n entries
ParseReturns ==
    /\ pc = "parse"
    /\ idx <= Len(feeds)
    /\ \E n \in 0..MaxArticles :
          /\ n + Len(articles) <= MaxArticles
          /\ left' = n
    /\ parsed' = [parsed EXCEPT ![idx] = "ok"]
    /\ pc' = "entries"
    /\ UNCHANGED <<feeds, cutoff, tz, idx, entry, articles, offered>>
    /\ UNCHANGED <<summaryVars, imageVars, renderVars, filterVars>>

\* one round of `for entry in d.entries`
VisitEntry ==
    /\ pc = "entries"
    /\ left > 0
    /\ \E pp \in {None} \cup { Some(t) : t \in Times },
          up \in {None} \cup { Some(t) : t \in Times } :
          LET e == PlainEntry(<< idx, left >>, pp, up)
              published == ResolvePublished(e, tz)
          IN  /\ entry' = e
              /\ IF Kept(published, cutoff)
                 THEN /\ articles' = Append(articles,
                                            MakeArticle(e, feeds[idx], Get(published)))
                      /\ offered' = offered \cup { Get(e.link) }
                 ELSE UNCHANGED <<articles, offered>>
    /\ left' = left - 1
    /\ UNCHANGED <<feeds, cutoff, tz, idx, pc, parsed>>
    /\ UNCHANGED <<summaryVars, imageVars, renderVars, filterVars>>

\* d.entries is exhausted: on to the next feed
EndOfEntries ==
    /\ pc = "entries"
    /\ left = 0
    /\ idx' = idx + 1
    /\ pc' = "parse"
    /\ UNCHANGED <<feeds, cutoff, tz, left, entry, articles, parsed, offered>>
    /\ UNCHANGED <<summaryVars, imageVars, renderVars, filterVars>>

\* the feed list is exhausted: sort and return
SortAndReturn ==
    /\ pc = "parse"
    /\ idx > Len(feeds)
    /\ articles' = SortDesc(articles)
    /\ pc' = "done"
    /\ UNCHANGED <<feeds, cutoff, tz, idx, left, entry, parsed, offered>>
    /\ UNCHANGED <<summaryVars, imageVars, renderVars, filterVars>>

NextFetch ==
    \/ ParseRaises
    \/ ParseReturns
    \/ VisitEntry
    \/ EndOfEntries
    \/ SortAndReturn

-----------------------------------------------------------------------------
(* collect_all_labels, collect_all_sources *)

\* sorted(a set of strings)
RECURSIVE SortStrings(_)
SortStrings(S) ==
    IF S = {} THEN << >>
    ELSE LET m == CHOOSE x \in S : \A y \in S : x = y \/ StrLess(x, y)
         IN  << m >> \o SortStrings(S \ {m})

CollectAllLabelsReversed(arts) ==
    Reverse(SortStrings(UNION { Range(arts[i].labels) : i \in 1..Len(arts) }))

CollectAllLabels(arts) ==
    SortStrings(UNION { Range(arts[i].labels) : i \in 1..Len(arts) })

CollectAllSources(arts) ==
    SortStrings({ arts[i].source : i \in 1..Len(arts) })

-----------------------------------------------------------------------------
(* The summary of one entry: fetch_articles, lines 79-82 *)

Spaces(n) == [i \in 1..n |-> IF i % 2 = 1 THEN " " ELSE "\n"]

\* n characters of running text, with a space every seventh character
Text(n) == [i \in 1..n |-> IF i % 7 = 0 THEN " " ELSE IF i % 2 = 0 THEN "a" ELSE "b"]

Shapes == { "plain", "wrapped", "inner", "brackets", "open", "quoted" }

Body(shape, n) ==
    CASE shape = "plain"    -> Text(n)
      [] shape = "wrapped"  -> << "<", "b", ">" >> \o Text(n) \o << "<", "/", "b", ">" >>
      [] shape = "inner"    -> SubSeq(Text(n), 1, n \div 2) \o << "<", "b", "r", "/", ">" >>
                                \o SubSeq(Text(n), n \div 2 + 1, n)
      [] shape = "brackets" -> Text(n) \o << "<", ">" >>
      [] shape = "open"     -> Text(n) \o << "<", "a" >>
      [] OTHER              -> << "<", "a", " ", "t", "=", "'", ">", "'", ">" >> \o Text(n)

IdleSummary == summary_raw = << >> /\ summary_text = None

InitSummary ==
    /\ \E shape \in Shapes, lead \in 0..MaxPad, trail \in 0..MaxPad,
          n \in (SummaryLimit - MaxOver)..(SummaryLimit + MaxOver) :
          summary_raw = Spaces(lead) \o Body(shape, n) \o Spaces(trail)
    /\ summary_text = None

\* lines 80-82
ComputeSummary ==
    /\ summary_text = None
    /\ summary_text' = Some(Summarize(summary_raw))
    /\ UNCHANGED summary_raw
    /\ UNCHANGED <<fetchVars, imageVars, renderVars, filterVars>>

NextSummary == ComputeSummary

-----------------------------------------------------------------------------
(* extract_image on one entry *)

U(c) == << "u", c >>

ImageType == ImagePrefix \o << "p" >>
AudioType == << "a", "u", "d", "i", "o", "/", "m" >>

Enclosures ==
    { [type |-> Some(ImageType), href |-> Some(U("1"))],
      [type |-> Some(ImageType), href |-> None],
      [type |-> Some(AudioType), href |-> Some(U("2"))],
      [type |-> None,            href |-> Some(U("3"))] }

Thumbnails ==
    { [url |-> Some(U("4"))], [url |-> Some(<< >>)], [url |-> None] }

MediaContents ==
    { [medium |-> Some(ImageMedium), type |-> None, url |-> Some(U("5"))],
      [medium |-> None, type |-> Some(ImageType), url |-> None],
      [medium |-> None, type |-> Some(AudioType), url |-> Some(U("6"))] }

ImgTag(q, c) == ImgOpen \o << " " >> \o SrcEq \o << q >> \o U(c) \o << q, ">" >>

SummaryTexts ==
    { << >>,
      << "h", "i" >>,
      << "<", "p", ">" >> \o ImgTag("\"", "7") \o ImgTag("'", "8"),
      \* <img data-src="9" src='0'>
      ImgOpen \o << " ", "d", "a", "t", "a", "-" >> \o SrcEq \o << "\"" >> \o U("9")
          \o << "\"", " " >> \o SrcEq \o << "'" >> \o U("0") \o << "'", ">" >> }

ContentLists == { << >>, << ImgTag("'", "c") >>, << << "h", "i" >>, ImgTag("\"", "d") >> }

SeqsUpTo(S, n) == UNION { [1..k -> S] : k \in 0..n }

IdleImage == img_entry = NoEntry /\ image = << >>

InitImage ==
    /\ \E encs \in SeqsUpTo(Enclosures, MaxEnclosures),
          mts \in SeqsUpTo(Thumbnails, MaxMedia),
          mcs \in SeqsUpTo(MediaContents, MaxMedia),
          sm \in SummaryTexts, ct \in ContentLists :
          img_entry = [NoEntry EXCEPT !.enclosures = encs, !.media_thumbnail = mts,
                                      !.media_content = mcs, !.summary = sm,
                                      !.content = ct]
    /\ image = << >>

CallExtractImage ==
    /\ image = << >>
    /\ image' = << ExtractImage(img_entry) >>
    /\ UNCHANGED img_entry
    /\ UNCHANGED <<fetchVars, summaryVars, renderVars, filterVars>>

NextImage == CallExtractImage

-----------------------------------------------------------------------------
(* html.escape, and the character references a browser decodes *)

Amp  == << "&", "a", "m", "p", ";" >>
Lt   == << "&", "l", "t", ";" >>
Gt   == << "&", "g", "t", ";" >>
Quot == << "&", "q", "u", "o", "t", ";" >>
Apos == << "&", "#", "x", "2", "7", ";" >>

EscapeCharNoQuote(c) ==
    CASE c = "&" -> Amp
      [] c = "<" -> Lt
      [] c = ">" -> Gt
      [] OTHER   -> << c >>

\* html.escape(s, quote=True), one character
EscapeChar(c) ==
    CASE c = "&"  -> Amp
      [] c = "<"  -> Lt
      [] c = ">"  -> Gt
      [] c = "\"" -> Quot
      [] c = "'"  -> Apos
      [] OTHER    -> << c >>

RECURSIVE Escape(_)
Escape(s) == IF s = << >> THEN << >> ELSE EscapeChar(Head(s)) \o Escape(Tail(s))

References == { <<Amp, "&">>, <<Lt, "<">>, <<Gt, ">">>, <<Quot, "\"">>, <<Apos, "'">> }

\* the reference that starts at s[i], if one does
RefAt(s, i) ==
    { r \in References : i + Len(r[1]) - 1 <= Len(s) /\ SubSeq(s, i, i + Len(r[1]) - 1) = r[1] }

\* the value a browser reads from an attribute or a text node written as s
RECURSIVE UnescapeFrom(_, _)
UnescapeFrom(s, i) ==
    IF i > Len(s) THEN << >>
    ELSE IF RefAt(s, i) # {}
         THEN LET r == CHOOSE x \in RefAt(s, i) : TRUE
              IN  << r[2] >> \o UnescapeFrom(s, i + Len(r[1]))
    ELSE << s[i] >> \o UnescapeFrom(s, i + 1)

Unescape(s) == UnescapeFrom(s, 1)

\* sep.join(strings)
RECURSIVE Join(_, _)
Join(strings, sep) ==
    IF strings = << >> THEN << >>
    ELSE IF Len(strings) = 1 THEN strings[1]
    ELSE strings[1] \o sep \o Join(Tail(strings), sep)

RECURSIVE Flatten(_)
Flatten(ss) == IF ss = << >> THEN << >> ELSE Head(ss) \o Flatten(Tail(ss))

-----------------------------------------------------------------------------
(* generate_html: the document as a sequence of pieces.  A piece of the    *)
(* template is one opaque character; a piece written from a value names    *)
(* the value (article number, slot, position in a list).                   *)

Lit(t) == [art |-> 0, slot |-> "template", j |-> 0, text |-> << t >>]
Val(k, slot, j, text) == [art |-> k, slot |-> slot, j |-> j, text |-> text]

Digits == << "0", "1", "2", "3", "4", "5", "6", "7", "8", "9" >>

\* a["published"].strftime("%Y-%m-%d %H:%M"): digits and punctuation
PubStr(t) == << "2", "0", "-", Digits[(t % 10) + 1], " ", "0", ":", "0" >>

\* lines 142-147
SourceButtons(all_sources) ==
    << Lit("<button class=\"filter-btn source-btn active\" data-source=\"all\">All</button>") >>
    \o Flatten([i \in 1..Len(all_sources) |->
         << Lit("<button class=\"filter-btn source-btn\" data-source=\""),
            Val(0, "source-btn", i, Escape(all_sources[i])),
            Lit("\">"),
            Val(0, "source-btn", i, Escape(all_sources[i])),
            Lit("</button>") >>])

\* lines 150-155
LabelButtons(all_labels) ==
    << Lit("<button class=\"filter-btn label-btn active\" data-label=\"all\">All</button>") >>
    \o Flatten([i \in 1..Len(all_labels) |->
         << Lit("<button class=\"filter-btn label-btn\" data-label=\""),
            Val(0, "label-btn", i, Escape(all_labels[i])),
            Lit("\">"),
            Val(0, "label-btn", i, Escape(all_labels[i])),
            Lit("</button>") >>])

\* lines 162-164
LabelSpans(k, a) ==
    Flatten([i \in 1..Len(a.labels) |->
         (IF i > 1 THEN << Lit(" ") >> ELSE << >>)
         \o << Lit("<span class=\"label\" data-filter-label=\""),
               Val(k, "label", i, Escape(a.labels[i])),
               Lit("\">"),
               Val(k, "label", i, Escape(a.labels[i])),
               Lit("</span>") >>])

\* lines 165-167: if a.get("image")
ImgHtml(k, a) ==
    IF IsSome(a.image) /\ Get(a.image) # << >>
    THEN << Lit("<a href=\""), Val(k, "link", 0, Escape(a.link)),
            Lit("\" target=\"_blank\" rel=\"noopener\"><img class=\"thumb\" src=\""),
            Val(k, "image", 0, Escape(Get(a.image))),
            Lit("\" alt=\"\" loading=\"lazy\"></a>") >>
    ELSE << >>

\* lines 159-177
Row(k, a) ==
    << Lit("<article class=\"entry\" data-source=\""),
       Val(k, "source", 0, Escape(a.source)),
       Lit("\" data-labels=\""),
       Val(k, "labels_attr", 0, Escape(Join(a.labels, << " " >>))),
       Lit("\"><div class=\"meta\"><span class=\"source\" data-filter-source=\""),
       Val(k, "source", 0, Escape(a.source)),
       Lit("\">"),
       Val(k, "source", 0, Escape(a.source)),
       Lit("</span>") >>
    \o LabelSpans(k, a)
    \o << Lit("</div><h2><a href=\""),
          Val(k, "link", 0, Escape(a.link)),
          Lit("\" target=\"_blank\" rel=\"noopener\">"),
          Val(k, "title", 0, Escape(a.title)),
          Lit("</a></h2>") >>
    \o ImgHtml(k, a)
    \o << Lit("<time>"),
          Val(k, "pub_str", 0, Escape(PubStr(a.published))),
          Lit("</time><p>"),
          Val(k, "summary", 0, Escape(a.summary)),
          Lit("</p></article>") >>

\* lines 128-294, from the source list on
GenerateHtml(arts) ==
    << Lit("<details class=\"sources\">") >>
    \o SourceButtons(CollectAllSources(arts))
    \o << Lit("</details><div class=\"filters\">") >>
    \o LabelButtons(CollectAllLabels(arts))
    \o << Lit("</div><main>") >>
    \o (IF arts = << >> THEN << Lit("<p>no articles</p>") >>
        ELSE Flatten([k \in 1..Len(arts) |-> Row(k, arts[k])]))
    \o << Lit("</main><script>...</script>") >>

Benign == << "a" >>
Payloads == { << "<", "b", ">" >>, << "\"", "&", "'" >>, << "&", "l", "t", ";" >> }

BaseArticle ==
    [title |-> Benign, link |-> Benign, source |-> Benign, labels |-> << Benign >>,
     published |-> 0, summary |-> Benign, image |-> None]

\* articles that carry a payload in one field
RenderArticles ==
    { BaseArticle, [BaseArticle EXCEPT !.image = Some(<< >>)] }
    \cup { [BaseArticle EXCEPT !.title = p] : p \in Payloads }
    \cup { [BaseArticle EXCEPT !.link = p, !.image = Some(Benign)] : p \in Payloads }
    \cup { [BaseArticle EXCEPT !.source = p] : p \in Payloads }
    \cup { [BaseArticle EXCEPT !.summary = p] : p \in Payloads }
    \cup { [BaseArticle EXCEPT !.image = Some(p)] : p \in Payloads }
    \cup { [BaseArticle EXCEPT !.labels = << p, Benign >>] : p \in Payloads }

IdleRender == collection = << >> /\ html = << >>

InitRender ==
    /\ collection \in SeqsUpTo(RenderArticles, MaxRendered)
    /\ html = << >>

CallGenerateHtml ==
    /\ html = << >>
    /\ html' = GenerateHtml(collection)
    /\ UNCHANGED collection
    /\ UNCHANGED <<fetchVars, summaryVars, imageVars, filterVars>>

NextRender == CallGenerateHtml

-----------------------------------------------------------------------------
(* The filter script of the rendered page (lines 239-290), run on the      *)
(* buttons and article blocks generate_html writes (lines 142-170).        *)

All == << "a", "l", "l" >>

SourceNames == { << "a" >>, All }
LabelLists  == { << >>, << << "t" >> >>, << << "m", " ", "l" >> >>, << << "t" >>, All >> }

PageArticles == { [source |-> s, labels |-> l] : s \in SourceNames, l \in LabelLists }

\* what the browser reads back from an attribute written as escape(v)
Attr(v) == Unescape(Escape(v))

\* data-source of the .source-btn buttons, in document order
SourceBtns ==
    << All >> \o [i \in 1..Len(CollectAllSources(page)) |-> Attr(CollectAllSources(page)[i])]

\* data-label of the .label-btn buttons, in document order
LabelBtns ==
    << All >> \o [i \in 1..Len(CollectAllLabels(page)) |-> Attr(CollectAllLabels(page)[i])]

\* entry.dataset.source, entry.dataset.labels of the k-th article block
DataSource(k) == Attr(page[k].source)
DataLabels(k) == Attr(Join(page[k].labels, << " " >>))

\* String.prototype.split(' ')
RECURSIVE Split(_)
Split(s) ==
    LET seps == { i \in 1..Len(s) : s[i] = " " }
    IN  IF seps = {} THEN << s >>
        ELSE LET i == CHOOSE a \in seps : \A b \in seps : a <= b
             IN  << SubSeq(s, 1, i - 1) >> \o Split(SubSeq(s, i + 1, Len(s)))

\* applyFilters(): the class "hidden" of every article block
ApplyFilters(src, lab) ==
    [k \in 1..Len(page) |->
        LET matchSource == src = All \/ DataSource(k) = src
            matchLabel  == lab = All \/ lab \in Range(Split(DataLabels(k)))
        IN  ~(matchSource /\ matchLabel)]

IdleFilter ==
    /\ page = << >> /\ activeSource = All /\ activeLabel = All
    /\ sourceActive = << >> /\ labelActive = << >> /\ hidden = << >>

InitFilter ==
    /\ page \in SeqsUpTo(PageArticles, MaxPageArticles)
    /\ activeSource = All
    /\ activeLabel = All
    /\ sourceActive = [i \in 1..Len(SourceBtns) |-> i = 1]
    /\ labelActive = [i \in 1..Len(LabelBtns) |-> i = 1]
    /\ hidden = [k \in 1..Len(page) |-> FALSE]

\* click on a .source-btn
ClickSourceBtn ==
    /\ \E b \in 1..Len(SourceBtns) :
            /\ sourceActive' = [i \in 1..Len(SourceBtns) |-> i = b]
            /\ activeSource' = SourceBtns[b]
            /\ hidden' = ApplyFilters(SourceBtns[b], activeLabel)
            /\ UNCHANGED <<page, activeLabel, labelActive>>
    /\ UNCHANGED <<fetchVars, summaryVars, imageVars, renderVars>>

\* click on a .label-btn
ClickLabelBtn ==
    /\ \E b \in 1..Len(LabelBtns) :
            /\ labelActive' = [i \in 1..Len(LabelBtns) |-> i = b]
            /\ activeLabel' = LabelBtns[b]
            /\ hidden' = ApplyFilters(activeSource, LabelBtns[b])
            /\ UNCHANGED <<page, activeSource, sourceActive>>
    /\ UNCHANGED <<fetchVars, summaryVars, imageVars, renderVars>>

\* click on the [data-filter-source] tag of an article block: selectSource
ClickSourceTag ==
    /\ \E k \in 1..Len(page) :
            LET name == Attr(page[k].source)
            IN  /\ sourceActive' = [i \in 1..Len(SourceBtns) |-> SourceBtns[i] = name]
                /\ activeSource' = name
                /\ hidden' = ApplyFilters(name, activeLabel)
                /\ UNCHANGED <<page, activeLabel, labelActive>>
    /\ UNCHANGED <<fetchVars, summaryVars, imageVars, renderVars>>

\* click on a [data-filter-label] tag of an article block: selectLabel
ClickLabelTag ==
    /\ \E k \in 1..Len(page) : \E j \in 1..Len(page[k].labels) :
            LET name == Attr(page[k].labels[j])
            IN  /\ labelActive' = [i \in 1..Len(LabelBtns) |-> LabelBtns[i] = name]
                /\ activeLabel' = name
                /\ hidden' = ApplyFilters(activeSource, name)
                /\ UNCHANGED <<page, activeSource, sourceActive>>
    /\ UNCHANGED <<fetchVars, summaryVars, imageVars, renderVars>>

NextFilter ==
    \/ ClickSourceBtn
    \/ ClickLabelBtn
    \/ ClickSourceTag
    \/ ClickLabelTag

-----------------------------------------------------------------------------
(* Specifications *)

StartFetch == InitFetch /\ IdleSummary /\ IdleImage /\ IdleRender /\ IdleFilter

SpecFetch == StartFetch /\ [][NextFetch]_vars

StartSummary == InitSummary /\ IdleFetch /\ IdleImage /\ IdleRender /\ IdleFilter

SpecSummary == StartSummary /\ [][NextSummary]_vars

StartImage == InitImage /\ IdleFetch /\ IdleSummary /\ IdleRender /\ IdleFilter

SpecImage == StartImage /\ [][NextImage]_vars

StartRender == InitRender /\ IdleFetch /\ IdleSummary /\ IdleImage /\ IdleFilter

SpecRender == StartRender /\ [][NextRender]_vars

StartFilter == InitFilter /\ IdleFetch /\ IdleSummary /\ IdleImage /\ IdleRender

SpecFilter == StartFilter /\ [][NextFilter]_vars

-----------------------------------------------------------------------------
(* Claims *)

\* the feed an article came from, and whether entry l1 was met before l2
\* (a link is << feed, entries of the feed still to visit >>)
FeedOf(a) == a.link[1]
MetBefore(l1, l2) == l1[1] < l2[1] \/ (l1[1] = l2[1] /\ l1[2] > l2[2])

\* C1: when fetch_articles returns, every feed of the list was tried, a feed
\* whose parse raised contributed no article, and the returned collection
\* holds exactly the qualifying entries of the feeds that parsed, whichever
\* feeds raised.
C1_FailingFeedsAreSkipped ==
    pc = "done" =>
        /\ \A i \in 1..Len(feeds) : parsed[i] \in {"raised", "ok"}
        /\ \A k \in 1..Len(articles) : parsed[FeedOf(articles[k])] = "ok"
        /\ { articles[k].link : k \in 1..Len(articles) } = offered
        /\ Len(articles) = Cardinality(offered)

\* C1 happens: the middle feed raised, the feeds around it gave articles
C1_Witness ==
    /\ pc = "done"
    /\ parsed = << "ok", "raised", "ok" >>
    /\ \E k \in 1..Len(articles) : FeedOf(articles[k]) = 1
    /\ \E k \in 1..Len(articles) : FeedOf(articles[k]) = 3

C3_SortedDescendingStable ==
    pc = "done" =>
        \A i, j \in 1..Len(articles) :
            i < j =>
                /\ articles[i].published >= articles[j].published
                /\ articles[i].published = articles[j].published
                       => MetBefore(articles[i].link, articles[j].link)

\* C3 happens: two articles with equal timestamps were returned
C3_Witness ==
    /\ pc = "done"
    /\ Len(articles) >= 2
    /\ articles[1].published = articles[2].published

\* the conditions under which a strategy of extract_image can supply a URL
ValidEnclosures(e) ==
    { i \in 1..Len(e.enclosures) :
        /\ StartsWith(OrEmpty(e.enclosures[i].type), ImagePrefix)
        /\ IsSome(e.enclosures[i].href) }

CanSupplyUrl(e) ==
    \/ ValidEnclosures(e) # {}
    \/ \E i \in 1..Len(e.media_thumbnail) : OrEmpty(e.media_thumbnail[i].url) # << >>
    \/ \E i \in 1..Len(e.media_content) :
          /\ \/ e.media_content[i].medium = Some(ImageMedium)
             \/ StartsWith(OrEmpty(e.media_content[i].type), ImagePrefix)
          /\ IsSome(e.media_content[i].url)
    \/ IsSome(ImgSrc(e.summary))
    \/ (Len(e.content) > 0 /\ IsSome(ImgSrc(e.content[1])))

\* C4: extract_image returns None only if all four strategies fail: when an
\* image-type enclosure, a thumbnail with a non-empty URL, an image media
\* content or an inline <img> can supply a URL, the result is a URL.
C4_NoneOnlyIfAllStrategiesFail ==
    image # << >> => (CanSupplyUrl(img_entry) => IsSome(image[1]))

\* C5: for an entry with a valid image-type enclosure (image/ type and a
\* URL), the URL of the first such enclosure is returned, whatever else the
\* entry carries.
C5_EnclosureHasPriority ==
    image # << >> =>
        (ValidEnclosures(img_entry) # {} =>
            image[1] = img_entry.enclosures[
                           CHOOSE i \in ValidEnclosures(img_entry) :
                               \A k \in ValidEnclosures(img_entry) : i <= k].href)

\* C6: after any clicks, an article block is visible iff (the active source
\* is All or the article's source) and (the active label is All or one of
\* the article's labels).
C6_VisibleIffMatchesBothFilters ==
    \A k \in 1..Len(page) :
        ~hidden[k] <=>
            /\ activeSource = All \/ page[k].source = activeSource
            /\ activeLabel = All \/ activeLabel \in Range(page[k].labels)

\* the value a piece of the document was written from
FieldOf(p) ==
    CASE p.slot = "source-btn"  -> CollectAllSources(collection)[p.j]
      [] p.slot = "label-btn"   -> CollectAllLabels(collection)[p.j]
      [] p.slot = "source"      -> collection[p.art].source
      [] p.slot = "labels_attr" -> Join(collection[p.art].labels, << " " >>)
      [] p.slot = "label"       -> collection[p.art].labels[p.j]
      [] p.slot = "link"        -> collection[p.art].link
      [] p.slot = "title"       -> collection[p.art].title
      [] p.slot = "image"       -> Get(collection[p.art].image)
      [] p.slot = "summary"     -> collection[p.art].summary
      [] OTHER                  -> PubStr(collection[p.art].published)

Markup == { "<", ">", "\"", "'" }

\* no markup character, and every & starts a character reference
InEscapedForm(t) ==
    \A i \in 1..Len(t) : t[i] \notin Markup /\ (t[i] = "&" => RefAt(t, i) # {})

\* C7: in the rendered document every piece written from a value (title,
\* summary, link, image URL, source, label, joined labels attribute) is in
\* escaped form: it holds no raw <, >, " or ', every & starts a character
\* reference, and a browser reads the value back from it.
C7_InterpolatedValuesEscaped ==
    html # << >> =>
        \A i \in 1..Len(html) :
            html[i].slot # "template" =>
                /\ InEscapedForm(html[i].text)
                /\ Unescape(html[i].text) = FieldOf(html[i])

\* C7 happens: a value holding markup characters was written, in attributes
\* and in text
C7_Witness ==
    /\ html # << >>
    /\ \E i \in 1..Len(html) :
          html[i].slot = "labels_attr" /\ Range(FieldOf(html[i])) \cap Markup # {}
    /\ \E i \in 1..Len(html) :
          html[i].slot = "image" /\ "<" \in Range(FieldOf(html[i]))

\* C8: a summary that is longer than 200 characters once stripped of tags
\* and trimmed becomes its first 200 characters followed by "...", 203
\* characters in all; a shorter one is kept as stripped and trimmed.
C8_SummaryTruncation ==
    summary_text # None =>
        LET t   == Strip(StripHtml(summary_raw))
            out == Get(summary_text)
        IN  IF Len(t) > 200
            THEN /\ Len(out) = 203
                 /\ SubSeq(out, 1, 200) = SubSeq(t, 1, 200)
                 /\ SubSeq(out, 201, 203) = << ".", ".", "." >>
            ELSE out = t

\* C8 happens: a summary with tags and padding, over 200 characters once
\* stripped and trimmed, was cut
C8_Witness ==
    /\ summary_text # None
    /\ Len(Strip(StripHtml(summary_raw))) > 200
    /\ Len(StripHtml(summary_raw)) < Len(summary_raw)
    /\ Len(Strip(StripHtml(summary_raw))) < Len(StripHtml(summary_raw))

StrictlySorted(L) == \A i \in 1..(Len(L) - 1) : StrLess(L[i], L[i+1])

\* C9: for the articles collected so far, collect_all_labels and
\* collect_all_sources are strictly increasing in string order (sorted, no
\* duplicate) and hold exactly the labels and the sources of the articles: a
\* feed without a retained entry adds nothing, no article gives empty lists.
C9_IndexesSortedDistinctExact ==
    LET L == CollectAllLabels(articles)
        S == CollectAllSources(articles)
        used == { FeedOf(articles[k]) : k \in 1..Len(articles) }
    IN  /\ StrictlySorted(L)
        /\ StrictlySorted(S)
        /\ Range(L) = UNION { Range(feeds[i].labels) : i \in used }
        /\ Range(S) = { feeds[i].name : i \in used }
        /\ articles = << >> => L = << >> /\ S = << >>

\* C9 happens: two feeds that share a label both gave an article, a third
\* feed was parsed and gave none
C9_Witness ==
    /\ pc = "done"
    /\ parsed = << "ok", "ok", "ok" >>
    /\ { FeedOf(articles[k]) : k \in 1..Len(articles) } = {1, 2}
    /\ Len(CollectAllLabels(articles)) = 3
    /\ Len(CollectAllSources(articles)) = 2

\* C10: in every state the clicks reach, exactly one source button and
\* exactly one label button are active, and the active button is the one
\* whose data-source / data-label equals activeSource / activeLabel.
C10_ExactlyOneActiveButton ==
    /\ Cardinality({ i \in 1..Len(SourceBtns) : sourceActive[i] }) = 1
    /\ \A i \in 1..Len(SourceBtns) : sourceActive[i] => SourceBtns[i] = activeSource
    /\ Cardinality({ i \in 1..Len(LabelBtns) : labelActive[i] }) = 1
    /\ \A i \in 1..Len(LabelBtns) : labelActive[i] => LabelBtns[i] = activeLabel

=============================================================================
